---- MODULE Spec2Model ----
(***************************************************************************)
(* Address / range model of pygsheets (datarange.py, ranges.py).           *)
(*                                                                         *)
(* Strings are sequences of character codes (ord values): "A1" is          *)
(* <<65, 49>>.  A coordinate tuple (row, column) is <<row, column>>.       *)
(***************************************************************************)
EXTENDS Integers, Sequences, FiniteSets, TLC

\* ------------------------------------------------------------------ bounds
MaxRow == 11
MaxCol == 704
MaxLabelLen == 3
MaxCoord == 2
MaxSheets == 2
MaxNamedCoord == 2
MaxIds == 2
MaxValue == 2
MaxEdit == 1

\* ------------------------------------------------ program constants
MAGIC_NUMBER == 64

\* Python None where an Address value is expected, and where a str is expected
NoAddr == <<>>
NoText == <<-1>>
NoError == "none"

\* Characters the enumerated label inputs are built from:
\* '0' '1' '9' ':' 'A' 'B' 'Z' 'a'
LabelChars == {48, 49, 57, 58, 65, 66, 90, 97}

IsLetter(ch) == (ch >= 65 /\ ch <= 90) \/ (ch >= 97 /\ ch <= 122)
IsDigit(ch) == ch >= 48 /\ ch <= 57

\* str.upper() on one character
Upper(ch) == IF ch >= 97 /\ ch <= 122 THEN ch - 32 ELSE ch

\* str(n) for n >= 0: the decimal digits, most significant first
RECURSIVE StrOfInt(_)
StrOfInt(n) == IF n < 10 THEN <<48 + n>> ELSE Append(StrOfInt(n \div 10), 48 + (n % 10))

\* int(s) for a non-empty string of decimal digits
RECURSIVE IntOfStr(_)
IntOfStr(s) ==
    IF Len(s) = 0 THEN 0
    ELSE 10 * IntOfStr(SubSeq(s, 1, Len(s) - 1)) + (s[Len(s)] - 48)

\* ----------------------------------------------------- Address._value_as_label
\* One iteration of `while div:` -- divmod, the zero-remainder correction and
\* the prepended letter.
EncStepNoCorrection(div, column_label) ==
    [div |-> div \div 26,
     column_label |-> <<(div % 26) + MAGIC_NUMBER>> \o column_label]

EncStepNoDecrement(div, column_label) ==
    LET d == div \div 26
        m == div % 26
    IN IF m = 0
       THEN [div |-> d, column_label |-> <<26 + MAGIC_NUMBER>> \o column_label]
       ELSE [div |-> d, column_label |-> <<m + MAGIC_NUMBER>> \o column_label]

EncStep(div, column_label) ==
    LET d == div \div 26
        m == div % 26
    IN IF m = 0
       THEN [div |-> d - 1, column_label |-> <<26 + MAGIC_NUMBER>> \o column_label]
       ELSE [div |-> d, column_label |-> <<m + MAGIC_NUMBER>> \o column_label]

RECURSIVE EncLoop(_, _)
EncLoop(div, column_label) ==
    IF div = 0 THEN column_label
    ELSE LET again(s) == EncLoop(s.div, s.column_label)
         IN again(EncStep(div, column_label))

\* The result of _value_as_label on _value = v: [err, label]
ValueAsLabel(v) ==
    IF v[1] < 1 \/ v[2] < 1
    THEN [err |-> "InvalidArgumentValue", label |-> <<>>]
    ELSE [err |-> NoError, label |-> EncLoop(v[2], <<>>) \o StrOfInt(v[1])]

\* ------------------------------------------------ Address._label_to_coordinates
\* re.match(r'([A-Za-z]+)(\d+)', label): the match is anchored at the start
\* only; both groups are greedy.
RECURSIVE LetterRun(_, _)
LetterRun(s, i) ==
    IF i <= Len(s) /\ IsLetter(s[i]) THEN 1 + LetterRun(s, i + 1) ELSE 0

RECURSIVE DigitRun(_, _)
DigitRun(s, i) ==
    IF i <= Len(s) /\ IsDigit(s[i]) THEN 1 + DigitRun(s, i + 1) ELSE 0

ReMatch(label) ==
    LET groups(nl, nd) ==
            IF nl >= 1 /\ nd >= 1
            THEN [ok |-> TRUE, g1 |-> SubSeq(label, 1, nl),
                  g2 |-> SubSeq(label, nl + 1, nl + nd)]
            ELSE [ok |-> FALSE, g1 |-> <<>>, g2 |-> <<>>]
        digits(nl) == groups(nl, DigitRun(label, nl + 1))
    IN digits(LetterRun(label, 1))

\* for i, c in enumerate(reversed(column_label)): col += (ord(c) - 64) * 26 ** i
RECURSIVE ColOfLetters(_, _)
ColOfLetters(column_label, i) ==
    IF i >= Len(column_label) THEN 0
    ELSE (Upper(column_label[Len(column_label) - i]) - MAGIC_NUMBER) * (26 ^ i)
         + ColOfLetters(column_label, i + 1)

\* The result of _label_to_coordinates: [err, value]
LabelToCoordinates(label) ==
    LET coordinates(m) ==
            IF m.ok
            THEN [err |-> NoError, value |-> <<IntOfStr(m.g2), ColOfLetters(m.g1, 0)>>]
            ELSE [err |-> "IncorrectCellLabel", value |-> NoAddr]
    IN coordinates(ReMatch(label))

\* ------------------------------------------------------------ Address.__init__
\* The argument is tagged with its Python type:
\*   [kind |-> "str", s |-> label], [kind |-> "tuple", v |-> <<row, col>>],
\*   [kind |-> "Address", v |-> _value of the other address], [kind |-> "other"].
\* The result is [err, value]: the exception raised, or the new _value.
AddressInit(value) ==
    CASE value.kind = "str" -> LabelToCoordinates(value.s)
      [] value.kind = "tuple" ->
            IF value.v[1] < 1 \/ value.v[2] < 1
            THEN [err |-> "InvalidArgumentValue", value |-> NoAddr]
            ELSE [err |-> NoError, value |-> value.v]
      [] value.kind = "Address" ->
            LET parsed(l) == IF l.err # NoError THEN [err |-> l.err, value |-> NoAddr]
                             ELSE LabelToCoordinates(l.label)
            IN parsed(ValueAsLabel(value.v))
      [] OTHER -> [err |-> "IncorrectCellLabel", value |-> NoAddr]


\* ======================================================== Range / GridRange
\* A range object is a record [cls, start, end] (Range) or
\* [cls, start, end, sheet] (GridRange); start and end hold Address._value.
\* A worksheet is modelled by its id; Title is its title ('S1', 'S2', ...).
PyNone == NoText
NoObj == [cls |-> "none"]
NoExc == [type |-> "none", msg |-> <<>>]
NoRet == [kind |-> "none"]
NoJson == [kind |-> "none"]
NoCall == [op |-> "none"]

Exc(type) == [type |-> type, msg |-> <<>>]

Title(sheet) == <<83>> \o StrOfInt(sheet)

\* ------------------------------------------------- Address.__eq__ / __ne__
\* Two classes are named Address: pygsheets.ranges.Address and
\* pygsheets.datarange.Address.  The operand of a comparison is tagged like an
\* argument: [kind |-> "Address", module, v], [kind |-> "str", s],
\* [kind |-> "tuple", v] or [kind |-> "other"].  The result is [err, ret]: ret
\* is Bool(b) or NotImplemented; .label raises on a row or column below 1.
Modules == {"ranges", "datarange"}
NotImplemented == [kind |-> "NotImplemented"]
Bool(b) == [kind |-> "bool", v |-> b]

\* self.label == other.label
LabelsEqual(v, w) ==
    LET cmp(a, b) ==
            IF a.err # NoError THEN [err |-> a.err, ret |-> NoRet]
            ELSE IF b.err # NoError THEN [err |-> b.err, ret |-> NoRet]
            ELSE [err |-> NoError, ret |-> Bool(a.label = b.label)]
    IN cmp(ValueAsLabel(v), ValueAsLabel(w))

\* self.label == other, other a str
LabelEqualsStr(v, t) ==
    LET cmp(a) == IF a.err # NoError THEN [err |-> a.err, ret |-> NoRet]
                  ELSE [err |-> NoError, ret |-> Bool(a.label = t)]
    IN cmp(ValueAsLabel(v))

\* Address.__eq__(other) of the class in `module`; isinstance(other, Address)
\* tests against the class of the same module.
AddressEq(module, v, other) ==
    IF other.kind = "Address" /\ other.module = module
    THEN LabelsEqual(v, other.v)
    ELSE IF module = "ranges" /\ other.kind = "str"
    THEN LabelEqualsStr(v, other.s)
    ELSE IF module = "ranges" /\ other.kind = "tuple"
    THEN [err |-> NoError, ret |-> Bool(v = other.v)]
    ELSE [err |-> NoError, ret |-> NotImplemented]

\* Address.__ne__(other)
AddressNe(module, v, other) ==
    LET negate(result) ==
            IF result.err # NoError \/ result.ret = NotImplemented THEN result
            ELSE [err |-> NoError, ret |-> Bool(~result.ret.v)]
    IN negate(AddressEq(module, v, other))

\* Range.__repr__: '{}:{}'.format(self.start.label, self.end.label)
RangeRepr(start, end) ==
    LET a == ValueAsLabel(start)
        b == ValueAsLabel(end)
    IN IF a.err # NoError THEN [err |-> a.err, s |-> <<>>]
       ELSE IF b.err # NoError THEN [err |-> b.err, s |-> <<>>]
       ELSE [err |-> NoError, s |-> a.label \o <<58>> \o b.label]

\* GridRange.__repr__: '{}!{}:{}'.format(self.worksheet.title, ...).  hasSheet
\* tells whether self._sheet has been assigned: reading it before raises
\* AttributeError.
GridRangeRepr(hasSheet, sheet, start, end) ==
    IF ~hasSheet THEN [err |-> "AttributeError", s |-> <<>>]
    ELSE LET r == RangeRepr(start, end)
         IN IF r.err # NoError THEN r
            ELSE [err |-> NoError, s |-> Title(sheet) \o <<33>> \o r.s]

\* the ordering test of Range.__init__
StartAfterEnd(start, end) == start[1] > end[1] \/ start[2] > end[2]

\* Range.__init__(start, end) run on an instance of class cls (self.range in the
\* error message dispatches to cls's __repr__; a GridRange has no _sheet yet).
\* The result is [exc, obj].
RangeInit(cls, start, end) ==
    LET raise(r) ==
            IF r.err # NoError THEN [exc |-> Exc(r.err), obj |-> NoObj]
            ELSE [exc |-> [type |-> "InvalidRange", msg |-> r.s], obj |-> NoObj]
        body(a, b) ==
            IF a.err # NoError THEN [exc |-> Exc(a.err), obj |-> NoObj]
            ELSE IF b.err # NoError THEN [exc |-> Exc(b.err), obj |-> NoObj]
            ELSE IF StartAfterEnd(a.value, b.value)
            THEN raise(IF cls = "Range" THEN RangeRepr(a.value, b.value)
                       ELSE GridRangeRepr(FALSE, 0, a.value, b.value))
            ELSE [exc |-> NoExc,
                  obj |-> [cls |-> cls, start |-> a.value, end |-> b.value]]
    IN body(AddressInit(start), AddressInit(end))

\* GridRange.__init__(worksheet, start, end)
GridRangeInit(worksheet, start, end) ==
    LET body(r) ==
            IF r.exc # NoExc THEN r
            ELSE [exc |-> NoExc,
                  obj |-> [cls |-> "GridRange", start |-> r.obj.start,
                           end |-> r.obj.end, sheet |-> worksheet]]
    IN body(RangeInit("GridRange", start, end))

\* GridRange.from_json(worksheet, **j)
GridRangeFromJson(worksheet, j) ==
    LET body(a, b) ==
            IF a.err # NoError THEN [exc |-> Exc(a.err), obj |-> NoObj]
            ELSE IF b.err # NoError THEN [exc |-> Exc(b.err), obj |-> NoObj]
            ELSE GridRangeInit(worksheet, [kind |-> "Address", v |-> a.value],
                                          [kind |-> "Address", v |-> b.value])
    IN body(AddressInit([kind |-> "tuple", v |-> <<j.startRowIndex, j.endRowIndex>>]),
            AddressInit([kind |-> "tuple",
                         v |-> <<j.startColumnIndex, j.endColumnIndex>>]))

\* Range.change_range(start, end): both addresses are replaced; nothing else
\* is done.  The result is [exc, obj].
ChangeRange(o, start, end) ==
    LET a == AddressInit(start)
        b == AddressInit(end)
    IN IF a.err # NoError THEN [exc |-> Exc(a.err), obj |-> o]
       ELSE IF b.err # NoError
       THEN [exc |-> Exc(b.err), obj |-> [o EXCEPT !.start = a.value]]
       ELSE [exc |-> NoExc, obj |-> [o EXCEPT !.start = a.value, !.end = b.value]]

\* to_json with the bounds of _get_gridrange
GridRangeToJsonZeroBased(o) ==
    [sheetId |-> o.sheet,
     startRowIndex |-> o.start[1] - 1,
     endRowIndex |-> o.end[1],
     startColumnIndex |-> o.start[2] - 1,
     endColumnIndex |-> o.end[2]]

\* GridRange.to_json
GridRangeToJson(o) ==
    [sheetId |-> o.sheet,
     startRowIndex |-> o.start[1],
     endRowIndex |-> o.end[1] + 1,
     startColumnIndex |-> o.start[2],
     endColumnIndex |-> o.end[2] + 1]

\* DataRange._get_gridrange
GetGridrange(o) ==
    [sheetId |-> o.sheet,
     startRowIndex |-> o.start[1] - 1,
     endRowIndex |-> o.end[1],
     startColumnIndex |-> o.start[2] - 1,
     endColumnIndex |-> o.end[2]]


\* ------------------------------------------------- DataRange.__init__ as called
\* DataRange.__init__(self, start, end, worksheet, ...) with the three values
\* bound to its first three parameters.  A worksheet argument is
\* [kind |-> "Worksheet", id |-> n].  The result is the exception the call ends
\* with: Address(start) and Address(end) raise for anything that is not a label,
\* a tuple or an Address; fetch() needs self._worksheet to be a worksheet; and
\* line 339, ProtectedRange(), lacks the three required arguments.
DataRangeNew(start, end, worksheet) ==
    LET a == AddressInit(start)
        b == AddressInit(end)
    IN IF a.err # NoError THEN Exc(a.err)
       ELSE IF b.err # NoError THEN Exc(b.err)
       ELSE IF worksheet.kind # "Worksheet" THEN Exc("AttributeError")
       ELSE Exc("TypeError")

\* NamedRange.__init__(name, worksheet, start, end, named_range_id) as called:
\* super().__init__(worksheet, start, end) passes the worksheet as `start`.
NamedRangeNew(name, worksheet, start, end, named_range_id) ==
    DataRangeNew(worksheet, start, end)

\* ------------------------------------------ NamedRange, handler by handler
\* SpecNamed follows the handlers of one NamedRange instance.  The instance is
\* [cls, start, end, sheet, name, id, name_id, linked]: the fields that the
\* bodies of DataRange.__init__ (lines 309-337, parameters taken by name) and
\* NamedRange.__init__ (lines 556-559) assign.
ServerId(n) == <<105>> \o StrOfInt(n)

\* GridRange.grid_range -> self.to_json(); on a NamedRange to_json is
\* NamedRange.to_json, which reads self.grid_range again: the recursion ends
\* in RecursionError.
\* On a DataRange or ProtectedRange to_json is GridRange.to_json, which reads
\* self.worksheet_id -> self._sheet.id; DataRange.__init__ assigns _worksheet
\* and never _sheet: AttributeError.
GridRangeOf(o) ==
    IF o.cls = "NamedRange"
    THEN [err |-> "RecursionError", json |-> NoJson]
    ELSE IF o.cls \in {"DataRange", "ProtectedRange"}
    THEN [err |-> "AttributeError", json |-> NoJson]
    ELSE [err |-> NoError, json |-> GridRangeToJson(o)]

Request(req, id, name, range) ==
    [req |-> req, id |-> id, name |-> name, range |-> range]

\* NamedRange._add_named_range; respId is the id in the gateway's response,
\* PyNone when batch_update raises.  The result is [exc, obj, sent].
AddNamedRange(o, respId) ==
    LET g == GridRangeOf(o)
    IN IF g.err # NoError THEN [exc |-> Exc(g.err), obj |-> o, sent |-> <<>>]
       ELSE LET rq == <<Request("addNamedRange", PyNone, o.name, g.json)>>
            IN IF respId = PyNone
               THEN [exc |-> Exc("RequestError"), obj |-> o, sent |-> rq]
               ELSE [exc |-> NoExc, obj |-> [o EXCEPT !.id = respId], sent |-> rq]

\* NamedRange.__init__ body
NamedRangeInit(name, worksheet, start, end, named_range_id, respId) ==
    LET a == AddressInit(start)
        b == AddressInit(end)
        o == [cls |-> "NamedRange", start |-> a.value, end |-> b.value,
              sheet |-> worksheet, name |-> name, id |-> named_range_id,
              name_id |-> PyNone, linked |-> TRUE]
    IN IF a.err # NoError THEN [exc |-> Exc(a.err), obj |-> NoObj, sent |-> <<>>]
       ELSE IF b.err # NoError THEN [exc |-> Exc(b.err), obj |-> NoObj, sent |-> <<>>]
       ELSE IF named_range_id # PyNone THEN [exc |-> NoExc, obj |-> o, sent |-> <<>>]
       ELSE LET r == AddNamedRange(o, respId)
            IN IF r.exc # NoExc THEN [exc |-> r.exc, obj |-> NoObj, sent |-> r.sent]
               ELSE r

\* DataRange.update_named_range; ok is whether batch_update returns
UpdateNamedRange(o, ok) ==
    IF o.name_id = <<>> THEN [exc |-> NoExc, sent |-> <<>>]
    ELSE LET rq == <<Request("updateNamedRange", o.name_id, o.name, GetGridrange(o))>>
         IN [exc |-> IF ok THEN NoExc ELSE Exc("RequestError"), sent |-> rq]

\* DataRange.start_addr / end_addr setters (which is "start" or "end")
SetAddr(o, which, value, ok) ==
    LET a == AddressInit(value)
        o2 == IF which = "start" THEN [o EXCEPT !.start = a.value]
              ELSE [o EXCEPT !.end = a.value]
    IN IF a.err # NoError THEN [exc |-> Exc(a.err), obj |-> o, sent |-> <<>>]
       ELSE IF o2.linked
       THEN LET u == UpdateNamedRange(o2, ok)
            IN [exc |-> u.exc, obj |-> o2, sent |-> u.sent]
       ELSE [exc |-> NoExc, obj |-> o2, sent |-> <<>>]

\* NamedRange.save
NamedRangeSave(o, ok) ==
    LET g == GridRangeOf(o)
    IN IF g.err # NoError THEN [exc |-> Exc(g.err), sent |-> <<>>]
       ELSE [exc |-> IF ok THEN NoExc ELSE Exc("RequestError"),
             sent |-> <<Request("updateNamedRange", o.id, o.name, g.json)>>]

\* NamedRange.delete; keys is spreadsheet.named_ranges.  Result [exc, sent, keys]
NamedRangeDelete(o, keys, ok) ==
    LET rq == <<Request("deleteNamedRange", o.id, PyNone, NoJson)>>
    IN IF ~ok THEN [exc |-> Exc("RequestError"), sent |-> rq, keys |-> keys]
       ELSE IF o.name \notin keys THEN [exc |-> Exc("KeyError"), sent |-> rq, keys |-> keys]
       ELSE [exc |-> NoExc, sent |-> rq, keys |-> keys \ {o.name}]

\* DataRange.link(update); ok1, ok2: whether the two remote calls return
DataRangeLink(o, update, ok1, ok2) ==
    LET o2 == [o EXCEPT !.linked = TRUE]
        u == UpdateNamedRange(o2, ok1)
        v == <<Request("valuesUpdate", PyNone, PyNone, NoJson)>>
    IN IF ~update THEN [exc |-> NoExc, obj |-> o2, sent |-> <<>>]
       ELSE IF u.exc # NoExc THEN [exc |-> u.exc, obj |-> o2, sent |-> u.sent]
       ELSE [exc |-> IF ok2 THEN NoExc ELSE Exc("RequestError"),
             obj |-> o2, sent |-> u.sent \o v]

\* ------------------------------------------ DataRange, handler by handler
\* A DataRange instance is [cls, start, end, sheet, name, id, name_id, linked,
\* data]; data is self._data.  Calls on the worksheet (get_values,
\* update_values, create_named_range, delete_named_range) are requests the
\* worksheet passes on; each may raise RequestError.
NoData == <<>>
\* a values argument or response: None, or a matrix (a sequence of rows)
NoValues == [kind |-> "None"]
Values(m) == [kind |-> "matrix", m |-> m]

\* DataRange.fetch; resp is what get_values returns, NoValues when it raises
Fetch(o, resp) ==
    LET rq == <<Request("get_values", PyNone, PyNone, NoJson)>>
    IN IF resp = NoValues THEN [exc |-> Exc("RequestError"), obj |-> o, sent |-> rq]
       ELSE [exc |-> NoExc, obj |-> [o EXCEPT !.data = resp.m], sent |-> rq]

\* DataRange.__init__ body (data=None: the values are fetched)
DataRangeInit(start, end, worksheet, name, name_id, resp) ==
    LET a == AddressInit(start)
        b == AddressInit(end)
        o == [cls |-> "DataRange", start |-> a.value, end |-> b.value,
              sheet |-> worksheet, name |-> name, id |-> PyNone,
              name_id |-> name_id, linked |-> TRUE, data |-> NoData]
    IN IF a.err # NoError THEN [exc |-> Exc(a.err), obj |-> NoObj, sent |-> <<>>]
       ELSE IF b.err # NoError THEN [exc |-> Exc(b.err), obj |-> NoObj, sent |-> <<>>]
       ELSE LET f == Fetch(o, resp)
            IN IF f.exc # NoExc THEN [exc |-> f.exc, obj |-> NoObj, sent |-> f.sent]
               ELSE f

\* DataRange.name setter with a str argument; ok: whether the first remote
\* call returns; ok2: whether worksheet.remove_protected_range, which ends the
\* branch of a non-empty name, returns.  _protect_id is None throughout (no
\* protect_id is given to __init__), so the assignment after it changes nothing.
DataRangeSetName(o, name, ok, ok2) ==
    LET fail(rq) == [exc |-> Exc("RequestError"), obj |-> o, sent |-> rq]
        renamed(o2, u) == [exc |-> u.exc, obj |-> o2, sent |-> u.sent]
        unprotect(r) ==
            IF r.exc # NoExc THEN r
            ELSE [exc |-> IF ok2 THEN NoExc ELSE Exc("RequestError"),
                  obj |-> r.obj,
                  sent |-> Append(r.sent,
                                  Request("remove_protected_range", PyNone, PyNone, NoJson))]
    IN IF name = <<>>
       THEN LET rq == <<Request("delete_named_range", PyNone, o.name, NoJson)>>
            IN IF ok THEN [exc |-> NoExc, obj |-> [o EXCEPT !.name = <<>>], sent |-> rq]
               ELSE fail(rq)
       ELSE IF o.name = <<>>
       THEN LET rq == <<Request("create_named_range", PyNone, name,
                                [start |-> o.start, end |-> o.end])>>
            IN unprotect(IF ok THEN [exc |-> NoExc, obj |-> [o EXCEPT !.name = name],
                                     sent |-> rq]
                         ELSE fail(rq))
       ELSE IF o.linked
       THEN unprotect(renamed([o EXCEPT !.name = name],
                              UpdateNamedRange([o EXCEPT !.name = name], ok)))
       ELSE unprotect([exc |-> NoExc, obj |-> [o EXCEPT !.name = name], sent |-> <<>>])

\* DataRange.update_values(values); values is a matrix or None; ok: whether
\* worksheet.update_values returns; resp: what the following fetch gets
DataRangeUpdateValues(o, values, ok, resp) ==
    LET given == values # NoValues /\ values.m # <<>>
        push(v) == <<Request("update_values", PyNone, PyNone, Values(v))>>
    IN IF ~o.linked THEN [exc |-> NoExc, obj |-> o, sent |-> <<>>]
       ELSE IF given
       THEN IF ~ok THEN [exc |-> Exc("RequestError"), obj |-> o, sent |-> push(values.m)]
            ELSE LET f == Fetch(o, resp)
                 IN [exc |-> f.exc, obj |-> f.obj, sent |-> push(values.m) \o f.sent]
       ELSE [exc |-> IF ok THEN NoExc ELSE Exc("RequestError"),
             obj |-> o, sent |-> push(o.data)]

\* -------------------------------------- ProtectedRange, handler by handler
\* A ProtectedRange instance has the DataRange fields and description,
\* warning_only, can_edit (_requesting_user_can_edit), named_range (the id of
\* the NamedRange held, or PyNone), unprotected_ranges and editors (NoList for
\* None, or List(l)).
NoList == [kind |-> "None"]
List(l) == [kind |-> "list", l |-> l]
EmptyJson == [kind |-> "empty"]

\* ProtectedRange.__init__(worksheet, start, end, ...) as called:
\* super().__init__(worksheet, start, end) passes the worksheet as `start`.
ProtectedRangeNew(worksheet, start, end) == DataRangeNew(worksheet, start, end)

\* the protectedRange dictionary of an addProtectedRange request; keys is the
\* set of its keys, a key that is absent has the value NoList
ProtectedRequest(o, keys, range, unprotected, namedRangeId) ==
    [req |-> "addProtectedRange",
     keys |-> {"description", "warningOnly", "editors"} \cup keys,
     description |-> o.description, warningOnly |-> o.warning_only,
     editors |-> o.editors, range |-> range,
     unprotectedRanges |-> unprotected, namedRangeId |-> namedRangeId]

\* the elif of _add_protected_range
AddProtectedElse(o) ==
    IF o.named_range # PyNone
    THEN [err |-> NoError,
          rq |-> ProtectedRequest(o, {"namedRangeId"}, NoList, NoList, o.named_range)]
    ELSE LET g == GridRangeOf(o)
         IN [err |-> g.err,
             rq |-> ProtectedRequest(o, {"range"}, g.json, NoList, PyNone)]

\* _add_protected_range with the elif written as a second if
AddProtectedRangeMixed(o, ok) ==
    LET keys == (IF o.unprotected_ranges # NoList THEN {"unprotectedRanges", "range"} ELSE {})
                    \cup (IF o.named_range # PyNone THEN {"namedRangeId"} ELSE {})
        g == GridRangeOf(o)
    IN IF keys = {}
       THEN IF g.err # NoError THEN [exc |-> Exc(g.err), sent |-> <<>>]
            ELSE [exc |-> IF ok THEN NoExc ELSE Exc("RequestError"),
                  sent |-> <<ProtectedRequest(o, {"range"}, g.json, NoList, PyNone)>>]
       ELSE [exc |-> IF ok THEN NoExc ELSE Exc("RequestError"),
             sent |-> <<ProtectedRequest(o, keys,
                          IF o.unprotected_ranges # NoList THEN EmptyJson ELSE NoList,
                          o.unprotected_ranges, o.named_range)>>]

\* ProtectedRange._add_protected_range; ok: whether batch_update returns.
\* The response is returned and not stored.  The result is [exc, sent].
AddProtectedRange(o, ok) ==
    LET r == IF o.unprotected_ranges # NoList
             THEN [err |-> NoError,
                   rq |-> ProtectedRequest(o, {"unprotectedRanges", "range"},
                                           EmptyJson, o.unprotected_ranges, PyNone)]
             ELSE AddProtectedElse(o)
    IN IF r.err # NoError THEN [exc |-> Exc(r.err), sent |-> <<>>]
       ELSE [exc |-> IF ok THEN NoExc ELSE Exc("RequestError"), sent |-> <<r.rq>>]

\* [GridRange.from_json(worksheet, **j) for j in js]: the list, or the first
\* exception
RECURSIVE FromJsonList(_, _)
FromJsonList(worksheet, js) ==
    IF js = <<>> THEN [exc |-> NoExc, l |-> <<>>]
    ELSE LET body(h, t) ==
                 IF h.exc # NoExc THEN [exc |-> h.exc, l |-> <<>>]
                 ELSE IF t.exc # NoExc THEN t
                 ELSE [exc |-> NoExc, l |-> <<h.obj>> \o t.l]
         IN body(GridRangeFromJson(worksheet, Head(js)),
                 FromJsonList(worksheet, Tail(js)))

\* line 638: list(filter(lambda x: x.id != id, named_ranges.items()))[0].  The
\* items are (key, value) tuples, which have no attribute id; with an empty
\* registry the list is empty and [0] raises IndexError.
LookupNamedRange(keys, named_range_id) ==
    IF keys = {} THEN "IndexError" ELSE "AttributeError"

\* ProtectedRange.__init__ body after DataRange's.  kw holds the keyword
\* arguments; resp: what get_values answers; ok: whether batch_update returns.
ProtectedRangeInit(worksheet, start, end, protected_range_id, kw, keys, resp, ok) ==
    LET fields(d, u) ==
            [cls |-> "ProtectedRange", start |-> d.obj.start, end |-> d.obj.end,
             sheet |-> worksheet, name |-> <<>>, id |-> protected_range_id,
             name_id |-> PyNone, linked |-> TRUE, data |-> d.obj.data,
             description |-> <<>>, warning_only |-> kw.warningOnly,
             can_edit |-> kw.requestingUserCanEdit, named_range |-> PyNone,
             unprotected_ranges |-> IF kw.unprotectedRanges = NoList THEN NoList
                                    ELSE List(u.l),
             editors |-> kw.editors]
        added(d, o, r) ==
            [exc |-> r.exc,
             obj |-> IF r.exc = NoExc THEN o ELSE NoObj,
             sent |-> d.sent \o r.sent]
        rest(d, u, o) ==
            IF d.exc # NoExc THEN d
            ELSE IF kw.namedRangeId # PyNone
            THEN [exc |-> Exc(LookupNamedRange(keys, kw.namedRangeId)),
                  obj |-> NoObj, sent |-> d.sent]
            ELSE IF u.exc # NoExc THEN [exc |-> u.exc, obj |-> NoObj, sent |-> d.sent]
            ELSE IF protected_range_id # PyNone
            THEN [exc |-> NoExc, obj |-> o, sent |-> d.sent]
            ELSE added(d, o, AddProtectedRange(o, ok))
        body(d, u) == rest(d, u, fields(d, u))
    IN body(DataRangeInit(start, end, worksheet, <<>>, PyNone, resp),
            IF kw.unprotectedRanges = NoList THEN [exc |-> NoExc, l |-> <<>>]
            ELSE FromJsonList(worksheet, kw.unprotectedRanges.l))

\* ProtectedRange.editors getter: [exc, ret]
EditorsGet(o) ==
    IF o.can_edit THEN [exc |-> NoExc, ret |-> [kind |-> "editors", v |-> o.editors]]
    ELSE [exc |-> Exc("NoPermission"), ret |-> NoRet]

\* the editors setter without its permission test
EditorsSetUngated(o, value) ==
    [exc |-> NoExc, obj |-> [o EXCEPT !.editors = value]]

\* ProtectedRange.editors setter: [exc, obj]
EditorsSet(o, value) ==
    IF o.can_edit THEN [exc |-> NoExc, obj |-> [o EXCEPT !.editors = value]]
    ELSE [exc |-> Exc("NoPermission"), obj |-> o]

\* ProtectedRange.delete; ok: whether batch_update returns
ProtectedRangeDelete(o, ok) ==
    [exc |-> IF ok THEN NoExc ELSE Exc("RequestError"),
     sent |-> <<[req |-> "deleteProtectedRange", id |-> o.id]>>]

\* ------------------------------------------------------------ ValueRange
\* datarange.ValueRange.__repr__ formats self.range, and Range.range returns
\* self.__repr__(): on a ValueRange the two call each other until
\* RecursionError.
ValueRangeRepr(o) == [err |-> "RecursionError", s |-> <<>>]

\* datarange.ValueRange.__init__(worksheet, start, end): GridRange.__init__,
\* the option fields, then self.load(), whose first argument is self.range.
\* The result is [exc, obj, sent].
ValueRangeNew(worksheet, start, end) ==
    LET body(g) ==
            IF g.exc # NoExc THEN [exc |-> g.exc, obj |-> NoObj, sent |-> <<>>]
            ELSE [exc |-> Exc(ValueRangeRepr(g.obj).err), obj |-> NoObj, sent |-> <<>>]
    IN body(GridRangeInit(worksheet, start, end))

\* ranges.ValueRange.__init__ as called: the class derives from object, and
\* object.__init__ takes no arguments.
RangesValueRangeNew(worksheet, start, end) == Exc("TypeError")

\* ranges.ValueRange, handler by handler.  The instance is [cls, start, end,
\* sheet, major_dimension, value_render_option, date_time_render_option,
\* values]; values is NoList (None) or List(m), m a sequence of rows.
ValuesGet(o, range) ==
    [req |-> "values_get", range |-> range, majorDimension |-> o.major_dimension,
     valueRenderOption |-> o.value_render_option,
     dateTimeRenderOption |-> o.date_time_render_option]

\* ranges.ValueRange.load; resp is response['values'], NoList when values_get
\* raises.  The result is [exc, obj, sent].
ValueRangeLoad(o, resp) ==
    LET r == RangeRepr(o.start, o.end)
    IN IF r.err # NoError THEN [exc |-> Exc(r.err), obj |-> o, sent |-> <<>>]
       ELSE IF resp = NoList
       THEN [exc |-> Exc("RequestError"), obj |-> o, sent |-> <<ValuesGet(o, r.s)>>]
       ELSE [exc |-> NoExc, obj |-> [o EXCEPT !.values = resp],
             sent |-> <<ValuesGet(o, r.s)>>]

\* ranges.ValueRange.__init__ body after the super().__init__ call
ValueRangeInit(worksheet, start, end, major_dimension, resp) ==
    LET a == AddressInit(start)
        b == AddressInit(end)
        o == [cls |-> "ValueRange", start |-> a.value, end |-> b.value,
              sheet |-> worksheet, major_dimension |-> major_dimension,
              value_render_option |-> "FORMATTED_VALUE",
              date_time_render_option |-> "FORMATTED_STRING", values |-> NoList]
    IN IF a.err # NoError THEN [exc |-> Exc(a.err), obj |-> NoObj, sent |-> <<>>]
       ELSE IF b.err # NoError THEN [exc |-> Exc(b.err), obj |-> NoObj, sent |-> <<>>]
       ELSE LET l == ValueRangeLoad(o, resp)
            IN IF l.exc # NoExc THEN [exc |-> l.exc, obj |-> NoObj, sent |-> l.sent]
               ELSE l

\* the loops of the major_dimension setter: new_values[i][k] = values[k][i]
\* for i in range(len(values[0])); a row shorter than the first raises
\* IndexError
Transposed(m) ==
    LET n == Len(m[1])
    IN IF \E k \in 1 .. Len(m) : Len(m[k]) < n
       THEN [err |-> "IndexError", m |-> m]
       ELSE [err |-> NoError,
             m |-> [i \in 1 .. n |-> [k \in 1 .. Len(m) |-> m[k][i]]]]

\* ValueRange.major_dimension setter (the same text in both modules); value
\* is "ROWS" or "COLUMNS".  _major_dimension is assigned before the loops run.
SetMajorDimension(o, value) ==
    LET o2 == [o EXCEPT !.major_dimension = value]
    IN IF o.major_dimension = value THEN [exc |-> NoExc, obj |-> o]
       ELSE IF o.values = NoList THEN [exc |-> Exc("TypeError"), obj |-> o2]
       ELSE IF o.values.l = <<>> THEN [exc |-> Exc("IndexError"), obj |-> o2]
       ELSE LET t == Transposed(o.values.l)
            IN IF t.err # NoError THEN [exc |-> Exc(t.err), obj |-> o2]
               ELSE [exc |-> NoExc, obj |-> [o2 EXCEPT !.values = List(t.m)]]

\* vr[i][j] = v through __getitem__, which hands out the row list itself
SetItem(o, i, j, v) ==
    IF o.values = NoList THEN [exc |-> Exc("TypeError"), obj |-> o]
    ELSE IF i > Len(o.values.l) \/ j > Len(o.values.l[i])
    THEN [exc |-> Exc("IndexError"), obj |-> o]
    ELSE [exc |-> NoExc, obj |-> [o EXCEPT !.values = List([o.values.l EXCEPT ![i][j] = v])]]

\* the entry the owning spreadsheet keeps for a named range it hands out
RegistryAdd(keys, name) == keys \cup {name}

\* ------------------------------------------------------------------ inputs
RECURSIVE SeqsUpTo(_, _)
SeqsUpTo(S, n) ==
    IF n = 0 THEN {<<>>}
    ELSE LET shorter == SeqsUpTo(S, n - 1)
         IN shorter \cup {Append(s, x) : s \in {t \in shorter : Len(t) = n - 1}, x \in S}

LabelInputs == SeqsUpTo(LabelChars, MaxLabelLen)
Rows == -1 .. MaxRow
Cols == -1 .. MaxCol

\* arguments given for the addresses of a Range / GridRange
\* 'A1' 'B3' 'A0' 'AV' 'A5' 'B10'
RangeLabels == {<<65, 49>>, <<66, 51>>, <<65, 48>>, <<65, 86>>, <<65, 53>>, <<66, 49, 48>>}
AddrArgs ==
    {[kind |-> "tuple", v |-> <<r, c>>] : r \in 0 .. MaxCoord, c \in 0 .. MaxCoord}
        \cup {[kind |-> "str", s |-> l] : l \in RangeLabels}
Sheets == 1 .. MaxSheets
JsonInputs ==
    [sheetId : Sheets, startRowIndex : 0 .. MaxCoord, endRowIndex : 0 .. MaxCoord,
     startColumnIndex : 0 .. MaxCoord, endColumnIndex : 0 .. MaxCoord]
Worksheets == {[kind |-> "Worksheet", id |-> n] : n \in Sheets}

\* arguments given to the handlers of a NamedRange
NamedAddrArgs ==
    {[kind |-> "tuple", v |-> <<r, c>>] : r \in 0 .. MaxNamedCoord, c \in 1 .. MaxNamedCoord}
        \cup {[kind |-> "str", s |-> <<65, 86>>]}
Names == {<<110>>, <<109>>}
OtherName == <<111>>
Ids == {ServerId(n) : n \in 1 .. MaxIds}

\* matrices held by the remote and given to update_values
Matrices == {Values(<<<<v>>>>) : v \in 1 .. MaxValue}
\* names a DataRange is given: '' (not a named range) or a name
DataNames == {<<>>, <<110>>}

\* arguments given to ProtectedRange and its setters
ProtAddrArgs == {[kind |-> "tuple", v |-> <<n, n>>] : n \in 0 .. MaxNamedCoord}
JsonCell == [sheetId |-> 1, startRowIndex |-> 0, endRowIndex |-> 1,
             startColumnIndex |-> 0, endColumnIndex |-> 1]
JsonBlock == [sheetId |-> 1, startRowIndex |-> 1, endRowIndex |-> 2,
              startColumnIndex |-> 1, endColumnIndex |-> 2]
UnprotectedArgs == {NoList, List(<<>>), List(<<JsonBlock>>), List(<<JsonCell>>)}
EditorArgs == {NoList, List(<<"u1">>)}
EditorValues == {List(<<"u1">>), List(<<"u2">>)}
ProtectedIds == {<<112>> \o StrOfInt(n) : n \in 1 .. MaxIds}
KwArgs ==
    [warningOnly : BOOLEAN, requestingUserCanEdit : BOOLEAN,
     namedRangeId : {PyNone} \cup Ids, unprotectedRanges : UnprotectedArgs,
     editors : EditorArgs]

\* what values_get answers for a window: empty, rectangular, and ragged rows
\* (the remote leaves out trailing empty cells)
WindowMatrices ==
    {List(<<>>), List(<<<<1, 2>>, <<3, 4>>>>), List(<<<<1, 2>>>>),
     List(<<<<1, 2>>, <<3>>>>), List(<<<<1>>, <<2, 3>>>>)}
Dimensions == {"ROWS", "COLUMNS"}
ValueRenderOptions == {"FORMATTED_VALUE", "UNFORMATTED_VALUE"}
DateTimeRenderOptions == {"FORMATTED_STRING", "SERIAL_NUMBER"}

\* operands of an Address comparison: addresses of either class, labels
\* ('a1' among them), coordinate tuples and an object of another type
Operands ==
    {[kind |-> "Address", module |-> m, v |-> AddressInit(a).value] :
        m \in Modules, a \in {x \in AddrArgs : AddressInit(x).err = NoError}}
        \cup {[kind |-> "str", s |-> l] : l \in RangeLabels \cup {<<97, 49>>}}
        \cup {[kind |-> "tuple", v |-> <<r, c>>] : r \in 0 .. MaxCoord, c \in 0 .. MaxCoord}
        \cup {[kind |-> "other"]}

\* ------------------------------------------------------------------- state
VARIABLES
    addr,          \* Address._value of the address object at hand, or None
    arg,           \* the argument of the last Address(...) call
    err,           \* the exception the last call raised, or NoError
    text,          \* the string the last .label access returned, or None
    pc,            \* "idle", or "loop" inside _value_as_label's while loop
    div,           \* _value_as_label: div
    column_label,  \* _value_as_label: column_label
    obj,           \* the range object at hand, or NoObj
    call,          \* the last call made on / for the range object, with its arguments
    exc,           \* the exception that call raised, or NoExc
    ret,           \* the value that call returned, or NoRet
    sent,          \* the requests that call passed to the gateway, in order
    origin,        \* the grid-range JSON the object was built from, or NoJson
    named_ranges   \* keys of spreadsheet.named_ranges

codecVars == <<addr, arg, err, text, pc, div, column_label>>
rangeVars == <<obj, call, exc, ret, sent, origin, named_ranges>>
vars == <<addr, arg, err, text, pc, div, column_label,
          obj, call, exc, ret, sent, origin, named_ranges>>

NoArg == [kind |-> "none"]

InitCodecVars ==
    /\ addr = NoAddr
    /\ arg = NoArg
    /\ err = NoError
    /\ text = NoText
    /\ pc = "idle"
    /\ div = 0
    /\ column_label = <<>>

InitRangeVars ==
    /\ obj = NoObj
    /\ call = NoCall
    /\ exc = NoExc
    /\ ret = NoRet
    /\ sent = <<>>
    /\ origin = NoJson
    /\ named_ranges = {}

InitCodec == InitCodecVars /\ InitRangeVars

\* Address(value): on an exception no object is produced.  The model follows one
\* address object: it is built from a str, a tuple or another type once
\* (arg = NoArg before), then read and re-wrapped any number of times.
Construct(value) ==
    LET r == AddressInit(value)
    IN /\ arg' = value
       /\ err' = r.err
       /\ addr' = r.value
       /\ text' = NoText
       /\ UNCHANGED <<pc, div, column_label>>
       /\ UNCHANGED rangeVars

Address_init_str ==
    /\ pc = "idle" /\ arg = NoArg
    /\ \E s \in LabelInputs : Construct([kind |-> "str", s |-> s])

Address_init_tuple ==
    /\ pc = "idle" /\ arg = NoArg
    /\ \E r \in Rows, c \in Cols : Construct([kind |-> "tuple", v |-> <<r, c>>])

Address_init_Address ==
    /\ pc = "idle"
    /\ addr # NoAddr
    /\ Construct([kind |-> "Address", v |-> addr])

Address_init_other ==
    /\ pc = "idle" /\ arg = NoArg
    /\ Construct([kind |-> "other"])

\* .label -> _value_as_label(), up to the entry of the while loop
Label_begin ==
    /\ pc = "idle"
    /\ addr # NoAddr
    /\ text' = NoText
    /\ IF addr[1] < 1 \/ addr[2] < 1
       THEN /\ err' = "InvalidArgumentValue"
            /\ UNCHANGED <<pc, div, column_label>>
       ELSE /\ err' = NoError
            /\ pc' = "loop"
            /\ div' = addr[2]
            /\ column_label' = <<>>
    /\ UNCHANGED <<addr, arg>>
    /\ UNCHANGED rangeVars

\* one iteration of `while div:`
Label_step ==
    /\ pc = "loop"
    /\ div # 0
    /\ LET s == EncStep(div, column_label)
       IN /\ div' = s.div
          /\ column_label' = s.column_label
    /\ UNCHANGED <<addr, arg, err, text, pc>>
    /\ UNCHANGED rangeVars

\* loop exit and the return statement
Label_end ==
    /\ pc = "loop"
    /\ div = 0
    /\ text' = column_label \o StrOfInt(addr[1])
    /\ pc' = "idle"
    /\ column_label' = <<>>
    /\ UNCHANGED <<addr, arg, err, div>>
    /\ UNCHANGED rangeVars

NextCodec ==
    \/ Address_init_str
    \/ Address_init_tuple
    \/ Address_init_Address
    \/ Address_init_other
    \/ Label_begin
    \/ Label_step
    \/ Label_end

SpecCodec == InitCodec /\ [][NextCodec]_vars

\* =========================================================== range actions
\* A call on the range object: its record, outcome and the new object.
Outcome(c, e, o, r, q) ==
    /\ call' = c
    /\ exc' = e
    /\ obj' = o
    /\ ret' = r
    /\ sent' = q

\* the program has built nothing yet
Fresh == obj = NoObj /\ call = NoCall

InitRange == InitCodecVars /\ InitRangeVars

\* Range(start, end)
Range_init ==
    /\ Fresh
    /\ \E start \in AddrArgs, end \in AddrArgs :
          LET r == RangeInit("Range", start, end)
          IN Outcome([op |-> "Range", start |-> start, end |-> end],
                     r.exc, r.obj, NoRet, <<>>)
    /\ UNCHANGED <<origin, named_ranges>>
    /\ UNCHANGED codecVars

\* GridRange(worksheet, start, end)
GridRange_init ==
    /\ Fresh
    /\ \E w \in Sheets, start \in AddrArgs, end \in AddrArgs :
          LET r == GridRangeInit(w, start, end)
          IN Outcome([op |-> "GridRange", start |-> start, end |-> end],
                     r.exc, r.obj, NoRet, <<>>)
    /\ UNCHANGED <<origin, named_ranges>>
    /\ UNCHANGED codecVars

\* GridRange.from_json(worksheet, **j), the worksheet being the one j names
GridRange_from_json ==
    /\ Fresh
    /\ \E j \in JsonInputs :
          LET r == GridRangeFromJson(j.sheetId, j)
          IN /\ Outcome([op |-> "from_json", j |-> j], r.exc, r.obj, NoRet, <<>>)
             /\ origin' = IF r.exc = NoExc THEN [kind |-> "json", v |-> j] ELSE NoJson
    /\ UNCHANGED named_ranges
    /\ UNCHANGED codecVars

\* DataRange(start, end, worksheet)
DataRange_new ==
    /\ Fresh
    /\ \E start \in AddrArgs, end \in AddrArgs, w \in Worksheets :
          Outcome([op |-> "DataRange", start |-> start, end |-> end],
                  DataRangeNew(start, end, w), NoObj, NoRet, <<>>)
    /\ UNCHANGED <<origin, named_ranges>>
    /\ UNCHANGED codecVars

\* NamedRange(name, worksheet, start, end, named_range_id)
NamedRange_new ==
    /\ Fresh
    /\ \E name \in Names, w \in Worksheets, start \in AddrArgs, end \in AddrArgs,
          id \in Ids \cup {PyNone} :
          Outcome([op |-> "NamedRange", start |-> start, end |-> end,
                   named_range_id |-> id],
                  NamedRangeNew(name, w, start, end, id), NoObj, NoRet, <<>>)
    /\ UNCHANGED <<origin, named_ranges>>
    /\ UNCHANGED codecVars

\* r.change_range(start, end)
change_range(args) ==
    /\ obj # NoObj
    /\ \E start \in args, end \in args :
          LET r == ChangeRange(obj, start, end)
          IN Outcome([op |-> "change_range"], r.exc, r.obj, NoRet, <<>>)
    /\ origin' = NoJson
    /\ UNCHANGED named_ranges
    /\ UNCHANGED codecVars

Range_change_range == change_range(AddrArgs)

\* g.to_json()
GridRange_to_json ==
    /\ obj # NoObj
    /\ obj.cls = "GridRange"
    /\ Outcome([op |-> "to_json"], NoExc, obj,
               [kind |-> "json", v |-> GridRangeToJson(obj)], <<>>)
    /\ UNCHANGED <<origin, named_ranges>>
    /\ UNCHANGED codecVars

\* g.grid_range
GridRange_grid_range ==
    /\ obj # NoObj
    /\ obj.cls = "GridRange"
    /\ Outcome([op |-> "grid_range"], NoExc, obj,
               [kind |-> "json", v |-> GridRangeToJson(obj)], <<>>)
    /\ UNCHANGED <<origin, named_ranges>>
    /\ UNCHANGED codecVars

\* datarange.ValueRange(worksheet, start, end)
ValueRange_new ==
    /\ Fresh
    /\ \E w \in Sheets, start \in AddrArgs, end \in AddrArgs :
          LET r == ValueRangeNew(w, start, end)
          IN Outcome([op |-> "ValueRange", start |-> start, end |-> end],
                     r.exc, r.obj, NoRet, r.sent)
    /\ UNCHANGED <<origin, named_ranges>>
    /\ UNCHANGED codecVars

\* r.range: Range.range returns self.__repr__(), Range's or GridRange's
Range_range ==
    /\ obj # NoObj
    /\ obj.cls \in {"Range", "GridRange"}
    /\ LET r == IF obj.cls = "Range" THEN RangeRepr(obj.start, obj.end)
                ELSE GridRangeRepr(TRUE, obj.sheet, obj.start, obj.end)
       IN Outcome([op |-> "range"],
                  IF r.err = NoError THEN NoExc ELSE Exc(r.err), obj,
                  IF r.err = NoError THEN [kind |-> "str", s |-> r.s] ELSE NoRet, <<>>)
    /\ UNCHANGED <<origin, named_ranges>>
    /\ UNCHANGED codecVars

NextRange ==
    \/ Range_range
    \/ ValueRange_new
    \/ Range_init
    \/ GridRange_init
    \/ GridRange_from_json
    \/ DataRange_new
    \/ NamedRange_new
    \/ Range_change_range
    \/ GridRange_to_json
    \/ GridRange_grid_range

SpecRange == InitRange /\ [][NextRange]_vars

\* ====================================================== NamedRange actions
InitNamed ==
    /\ InitCodecVars
    /\ obj = NoObj
    /\ call = NoCall
    /\ exc = NoExc
    /\ ret = NoRet
    /\ sent = <<>>
    /\ origin = NoJson
    /\ named_ranges = {OtherName}

\* NamedRange.__init__; id: the named_range_id argument, resp: the id the
\* gateway would answer an addNamedRange with (PyNone: it raises)
NamedRange_init ==
    /\ Fresh
    /\ \E name \in Names, w \in Sheets, start \in NamedAddrArgs, end \in NamedAddrArgs,
          id \in Ids \cup {PyNone}, resp \in Ids \cup {PyNone} :
          LET r == NamedRangeInit(name, w, start, end, id, resp)
          IN /\ Outcome([op |-> "NamedRange", start |-> start, end |-> end,
                         named_range_id |-> id],
                        r.exc, r.obj, NoRet, r.sent)
             /\ named_ranges' = IF r.exc = NoExc THEN RegistryAdd(named_ranges, name)
                                ELSE named_ranges
    /\ UNCHANGED origin
    /\ UNCHANGED codecVars

IsNamed == obj # NoObj /\ obj.cls = "NamedRange"

\* an instance of DataRange or of its subclass NamedRange
IsSynced == obj # NoObj /\ obj.cls \in {"DataRange", "NamedRange"}

\* nr._add_named_range()
NamedRange_add_named_range ==
    /\ IsNamed
    /\ \E resp \in Ids \cup {PyNone} :
          LET r == AddNamedRange(obj, resp)
          IN Outcome([op |-> "_add_named_range"], r.exc, r.obj, NoRet, r.sent)
    /\ UNCHANGED <<origin, named_ranges>>
    /\ UNCHANGED codecVars

\* nr.name = value
NamedRange_name_set ==
    /\ IsNamed
    /\ \E value \in Names \cup {OtherName} :
          Outcome([op |-> "name"], NoExc, [obj EXCEPT !.name = value], NoRet, <<>>)
    /\ UNCHANGED <<origin, named_ranges>>
    /\ UNCHANGED codecVars

\* nr.start_addr = value
DataRange_start_addr_set ==
    /\ IsSynced
    /\ \E value \in NamedAddrArgs, ok \in BOOLEAN :
          LET r == SetAddr(obj, "start", value, ok)
          IN Outcome([op |-> "start_addr"], r.exc, r.obj, NoRet, r.sent)
    /\ UNCHANGED <<origin, named_ranges>>
    /\ UNCHANGED codecVars

\* nr.end_addr = value
DataRange_end_addr_set ==
    /\ IsSynced
    /\ \E value \in NamedAddrArgs, ok \in BOOLEAN :
          LET r == SetAddr(obj, "end", value, ok)
          IN Outcome([op |-> "end_addr"], r.exc, r.obj, NoRet, r.sent)
    /\ UNCHANGED <<origin, named_ranges>>
    /\ UNCHANGED codecVars

NamedRange_change_range == IsNamed /\ change_range(NamedAddrArgs)

\* nr.update_named_range()
DataRange_update_named_range ==
    /\ IsSynced
    /\ \E ok \in BOOLEAN :
          LET r == UpdateNamedRange(obj, ok)
          IN Outcome([op |-> "update_named_range"], r.exc, obj, NoRet, r.sent)
    /\ UNCHANGED <<origin, named_ranges>>
    /\ UNCHANGED codecVars

\* nr.save()
NamedRange_save ==
    /\ IsNamed
    /\ \E ok \in BOOLEAN :
          LET r == NamedRangeSave(obj, ok)
          IN Outcome([op |-> "save"], r.exc, obj, NoRet, r.sent)
    /\ UNCHANGED <<origin, named_ranges>>
    /\ UNCHANGED codecVars

\* nr.delete()
NamedRange_delete ==
    /\ IsNamed
    /\ \E ok \in BOOLEAN :
          LET r == NamedRangeDelete(obj, named_ranges, ok)
          IN /\ Outcome([op |-> "delete"], r.exc, obj, NoRet, r.sent)
             /\ named_ranges' = r.keys
    /\ UNCHANGED origin
    /\ UNCHANGED codecVars

\* nr.link(update)
DataRange_link ==
    /\ IsSynced
    /\ \E update \in BOOLEAN, ok1 \in BOOLEAN, ok2 \in BOOLEAN :
          LET r == DataRangeLink(obj, update, ok1, ok2)
          IN Outcome([op |-> "link"], r.exc, r.obj, NoRet, r.sent)
    /\ UNCHANGED <<origin, named_ranges>>
    /\ UNCHANGED codecVars

\* nr.unlink()
DataRange_unlink ==
    /\ IsSynced
    /\ Outcome([op |-> "unlink"], NoExc, [obj EXCEPT !.linked = FALSE], NoRet, <<>>)
    /\ UNCHANGED <<origin, named_ranges>>
    /\ UNCHANGED codecVars

\* DataRange.__init__ body; resp: what get_values answers (NoValues: it raises)
DataRange_init ==
    /\ Fresh
    /\ \E start \in NamedAddrArgs, end \in NamedAddrArgs, w \in Sheets,
          name \in DataNames, name_id \in {PyNone, <<>>} \cup Ids,
          resp \in Matrices \cup {NoValues} :
          LET r == DataRangeInit(start, end, w, name, name_id, resp)
          IN Outcome([op |-> "DataRange", start |-> start, end |-> end],
                     r.exc, r.obj, NoRet, r.sent)
    /\ UNCHANGED <<origin, named_ranges>>
    /\ UNCHANGED codecVars

IsData == obj # NoObj /\ obj.cls = "DataRange"

\* dr.name = value
DataRange_name_set ==
    /\ IsData
    /\ \E value \in DataNames \cup Names, ok \in BOOLEAN, ok2 \in BOOLEAN :
          LET r == DataRangeSetName(obj, value, ok, ok2)
          IN Outcome([op |-> "name"], r.exc, r.obj, NoRet, r.sent)
    /\ UNCHANGED <<origin, named_ranges>>
    /\ UNCHANGED codecVars

\* dr.update_values(values)
DataRange_update_values ==
    /\ IsData
    /\ \E values \in Matrices \cup {NoValues}, ok \in BOOLEAN,
          resp \in Matrices \cup {NoValues} :
          LET r == DataRangeUpdateValues(obj, values, ok, resp)
          IN Outcome([op |-> "update_values"], r.exc, r.obj, NoRet, r.sent)
    /\ UNCHANGED <<origin, named_ranges>>
    /\ UNCHANGED codecVars

NextNamed ==
    \/ DataRange_init
    \/ DataRange_name_set
    \/ DataRange_update_values
    \/ NamedRange_init
    \/ NamedRange_add_named_range
    \/ NamedRange_name_set
    \/ DataRange_start_addr_set
    \/ DataRange_end_addr_set
    \/ NamedRange_change_range
    \/ DataRange_update_named_range
    \/ NamedRange_save
    \/ NamedRange_delete
    \/ DataRange_link
    \/ DataRange_unlink

SpecNamed == InitNamed /\ [][NextNamed]_vars

\* ================================================== ProtectedRange actions
\* the registry holds one named range, or none
InitProtected ==
    /\ InitCodecVars
    /\ obj = NoObj
    /\ call = NoCall
    /\ exc = NoExc
    /\ ret = NoRet
    /\ sent = <<>>
    /\ origin = NoJson
    /\ named_ranges \in {{}, {OtherName}}

\* ProtectedRange(worksheet, start, end, protected_range_id, **kw)
ProtectedRange_new ==
    /\ Fresh
    /\ \E w \in Worksheets, start \in ProtAddrArgs, end \in ProtAddrArgs, kw \in KwArgs :
          Outcome([op |-> "ProtectedRange.new", start |-> start, end |-> end, kw |-> kw],
                  ProtectedRangeNew(w, start, end), NoObj, NoRet, <<>>)
    /\ UNCHANGED <<origin, named_ranges>>
    /\ UNCHANGED codecVars

\* ProtectedRange.__init__ body
ProtectedRange_init ==
    /\ Fresh
    /\ \E w \in Sheets, start \in ProtAddrArgs, end \in ProtAddrArgs,
          id \in ProtectedIds \cup {PyNone}, kw \in KwArgs,
          resp \in Matrices \cup {NoValues}, ok \in BOOLEAN :
          LET r == ProtectedRangeInit(w, start, end, id, kw, named_ranges, resp, ok)
          IN Outcome([op |-> "ProtectedRange", start |-> start, end |-> end,
                      protected_range_id |-> id, kw |-> kw],
                     r.exc, r.obj, NoRet, r.sent)
    /\ UNCHANGED <<origin, named_ranges>>
    /\ UNCHANGED codecVars

IsProtected == obj # NoObj /\ obj.cls = "ProtectedRange"

\* pr._add_protected_range()
ProtectedRange_add_protected_range ==
    /\ IsProtected
    /\ \E ok \in BOOLEAN :
          LET r == AddProtectedRange(obj, ok)
          IN Outcome([op |-> "_add_protected_range"], r.exc, obj, NoRet, r.sent)
    /\ UNCHANGED <<origin, named_ranges>>
    /\ UNCHANGED codecVars

\* pr.named_range = value
ProtectedRange_named_range_set ==
    /\ IsProtected
    /\ \E value \in {PyNone} \cup Ids :
          Outcome([op |-> "named_range"], NoExc,
                  [obj EXCEPT !.named_range = value], NoRet, <<>>)
    /\ UNCHANGED <<origin, named_ranges>>
    /\ UNCHANGED codecVars

\* pr.unprotected_ranges = value
ProtectedRange_unprotected_ranges_set ==
    /\ IsProtected
    /\ \E value \in {NoList, List(<<>>)} :
          Outcome([op |-> "unprotected_ranges"], NoExc,
                  [obj EXCEPT !.unprotected_ranges = value], NoRet, <<>>)
    /\ UNCHANGED <<origin, named_ranges>>
    /\ UNCHANGED codecVars

\* pr.warnings_only = value
ProtectedRange_warnings_only_set ==
    /\ IsProtected
    /\ \E value \in BOOLEAN :
          Outcome([op |-> "warnings_only"], NoExc,
                  [obj EXCEPT !.warning_only = value], NoRet, <<>>)
    /\ UNCHANGED <<origin, named_ranges>>
    /\ UNCHANGED codecVars

\* pr.editors
ProtectedRange_editors_get ==
    /\ IsProtected
    /\ LET r == EditorsGet(obj)
       IN Outcome([op |-> "editors_get"], r.exc, obj, r.ret, <<>>)
    /\ UNCHANGED <<origin, named_ranges>>
    /\ UNCHANGED codecVars

\* pr.editors = value
ProtectedRange_editors_set ==
    /\ IsProtected
    /\ \E value \in EditorValues :
          LET r == EditorsSet(obj, value)
          IN Outcome([op |-> "editors_set", value |-> value], r.exc, r.obj, NoRet, <<>>)
    /\ UNCHANGED <<origin, named_ranges>>
    /\ UNCHANGED codecVars

\* pr.delete()
ProtectedRange_delete ==
    /\ IsProtected
    /\ \E ok \in BOOLEAN :
          LET r == ProtectedRangeDelete(obj, ok)
          IN Outcome([op |-> "delete"], r.exc, obj, NoRet, r.sent)
    /\ UNCHANGED <<origin, named_ranges>>
    /\ UNCHANGED codecVars

NextProtected ==
    \/ ProtectedRange_new
    \/ ProtectedRange_init
    \/ ProtectedRange_add_protected_range
    \/ ProtectedRange_named_range_set
    \/ ProtectedRange_unprotected_ranges_set
    \/ ProtectedRange_warnings_only_set
    \/ ProtectedRange_editors_get
    \/ ProtectedRange_editors_set
    \/ ProtectedRange_delete

SpecProtected == InitProtected /\ [][NextProtected]_vars

\* ====================================================== ValueRange actions
InitValue == InitCodecVars /\ InitRangeVars

\* ranges.ValueRange(worksheet, start, end)
ranges_ValueRange_new ==
    /\ Fresh
    /\ \E w \in Sheets, start \in ProtAddrArgs, end \in ProtAddrArgs :
          Outcome([op |-> "ranges.ValueRange.new", start |-> start, end |-> end],
                  RangesValueRangeNew(w, start, end), NoObj, NoRet, <<>>)
    /\ UNCHANGED <<origin, named_ranges>>
    /\ UNCHANGED codecVars

\* ranges.ValueRange.__init__ body; resp: what values_get answers
ranges_ValueRange_init ==
    /\ Fresh
    /\ \E w \in Sheets, start \in ProtAddrArgs, end \in ProtAddrArgs,
          dim \in Dimensions, resp \in WindowMatrices \cup {NoList} :
          LET r == ValueRangeInit(w, start, end, dim, resp)
          IN Outcome([op |-> "ranges.ValueRange", start |-> start, end |-> end,
                      resp |-> resp],
                     r.exc, r.obj, NoRet, r.sent)
    /\ UNCHANGED <<origin, named_ranges>>
    /\ UNCHANGED codecVars

IsWindow == obj # NoObj /\ obj.cls = "ValueRange"

\* vr.load()
ValueRange_load ==
    /\ IsWindow
    /\ \E resp \in WindowMatrices \cup {NoList} :
          LET r == ValueRangeLoad(obj, resp)
          IN Outcome([op |-> "load", resp |-> resp], r.exc, r.obj, NoRet, r.sent)
    /\ UNCHANGED <<origin, named_ranges>>
    /\ UNCHANGED codecVars

\* vr.major_dimension = value; the call record keeps the orientation and
\* the matrix the window had when the call was made
ValueRange_major_dimension_set ==
    /\ IsWindow
    /\ \E value \in Dimensions :
          LET r == SetMajorDimension(obj, value)
          IN Outcome([op |-> "major_dimension", value |-> value,
                      before |-> [major_dimension |-> obj.major_dimension,
                                  values |-> obj.values]],
                     r.exc, r.obj, NoRet, <<>>)
    /\ UNCHANGED <<origin, named_ranges>>
    /\ UNCHANGED codecVars

\* vr.value_render_option = value
ValueRange_value_render_option_set ==
    /\ IsWindow
    /\ \E value \in ValueRenderOptions :
          Outcome([op |-> "value_render_option"], NoExc,
                  [obj EXCEPT !.value_render_option = value], NoRet, <<>>)
    /\ UNCHANGED <<origin, named_ranges>>
    /\ UNCHANGED codecVars

\* vr.date_time_render_option = value
ValueRange_date_time_render_option_set ==
    /\ IsWindow
    /\ \E value \in DateTimeRenderOptions :
          Outcome([op |-> "date_time_render_option"], NoExc,
                  [obj EXCEPT !.date_time_render_option = value], NoRet, <<>>)
    /\ UNCHANGED <<origin, named_ranges>>
    /\ UNCHANGED codecVars

\* vr[i][j] = v
ValueRange_setitem ==
    /\ IsWindow
    /\ \E i \in 1 .. MaxEdit, j \in 1 .. MaxEdit, v \in 1 .. MaxValue :
          LET r == SetItem(obj, i, j, v)
          IN Outcome([op |-> "setitem"], r.exc, r.obj, NoRet, <<>>)
    /\ UNCHANGED <<origin, named_ranges>>
    /\ UNCHANGED codecVars

\* vr.range
ValueRange_range ==
    /\ IsWindow
    /\ LET r == RangeRepr(obj.start, obj.end)
       IN Outcome([op |-> "range"],
                  IF r.err = NoError THEN NoExc ELSE Exc(r.err), obj,
                  IF r.err = NoError THEN [kind |-> "str", s |-> r.s] ELSE NoRet, <<>>)
    /\ UNCHANGED <<origin, named_ranges>>
    /\ UNCHANGED codecVars

NextValue ==
    \/ ValueRange_new
    \/ ranges_ValueRange_new
    \/ ranges_ValueRange_init
    \/ ValueRange_load
    \/ ValueRange_major_dimension_set
    \/ ValueRange_value_render_option_set
    \/ ValueRange_date_time_render_option_set
    \/ ValueRange_setitem
    \/ ValueRange_range

SpecValue == InitValue /\ [][NextValue]_vars

\* ====================================================== Address comparison
\* Address(value) of the class in module m
Address_new ==
    /\ arg = NoArg /\ call = NoCall
    /\ \E m \in Modules, value \in AddrArgs :
          LET built(r) ==
                  /\ arg' = value
                  /\ err' = r.err
                  /\ addr' = r.value
                  /\ call' = [op |-> "Address", module |-> m]
          IN built(AddressInit(value))
    /\ UNCHANGED <<text, pc, div, column_label>>
    /\ UNCHANGED <<obj, exc, ret, sent, origin, named_ranges>>

\* a comparison method called on the address at hand
compare(op) ==
    /\ addr # NoAddr /\ call # NoCall
    /\ \E other \in Operands :
          LET done(r) ==
                  /\ call' = [op |-> op, module |-> call.module, other |-> other]
                  /\ exc' = IF r.err = NoError THEN NoExc ELSE Exc(r.err)
                  /\ ret' = r.ret
          IN done(IF op = "__eq__" THEN AddressEq(call.module, addr, other)
                  ELSE AddressNe(call.module, addr, other))
    /\ UNCHANGED codecVars
    /\ UNCHANGED <<obj, sent, origin, named_ranges>>

\* address.__eq__(other)
Address_eq == compare("__eq__")

\* address.__ne__(other)
Address_ne == compare("__ne__")

NextCompare ==
    \/ Address_new
    \/ Address_eq
    \/ Address_ne

SpecCompare == InitCodec /\ [][NextCompare]_vars

\* =================================================================== claims
\* ---------------------------------------------------------------------- C1
\* C1: for every coordinate pair (row, column) with row >= 1 and column >= 1,
\* rendering the A1 label of the address and decoding that label again yields
\* the same pair, without an exception: both when an Address is re-wrapped
\* (Address(a) decodes a.label) and for the string .label returned.
C1_RoundTrip ==
    /\ (arg.kind = "Address" /\ arg.v[1] >= 1 /\ arg.v[2] >= 1)
          => (err = NoError /\ addr = arg.v)
    /\ (text # NoText)
          => LabelToCoordinates(text) = [err |-> NoError, value |-> addr]

C1_Witness ==
    /\ arg.kind = "Address"
    /\ arg.v = <<10, 703>>
    /\ addr = <<10, 703>>
    /\ text = <<65, 65, 65, 49, 48>>

\* ---------------------------------------------------------------------- C2
\* The value of a bijective base-26 numeral over the digits A=1 .. Z=26,
\* most significant digit first.
RECURSIVE NumeralValue(_)
NumeralValue(s) ==
    IF Len(s) = 0 THEN 0
    ELSE 26 * NumeralValue(SubSeq(s, 1, Len(s) - 1)) + (s[Len(s)] - 64)

RECURSIVE DecimalValue(_)
DecimalValue(s) ==
    IF Len(s) = 0 THEN 0
    ELSE 10 * DecimalValue(SubSeq(s, 1, Len(s) - 1)) + (s[Len(s)] - 48)

C2_IsEncoding(t, row, col) ==
    \E k \in 1 .. (Len(t) - 1) :
        LET letters == SubSeq(t, 1, k)
            digits == SubSeq(t, k + 1, Len(t))
        IN /\ \A i \in 1 .. Len(letters) : letters[i] \in 65 .. 90
           /\ NumeralValue(letters) = col
           /\ \A i \in 1 .. Len(digits) : digits[i] \in 48 .. 57
           /\ digits[1] # 48
           /\ DecimalValue(digits) = row
           /\ (col = 26 => letters = <<90>>)
           /\ (col = 27 => letters = <<65, 65>>)
           /\ (col = 52 => letters = <<65, 90>>)
           /\ (col = 53 => letters = <<66, 65>>)
           /\ (col = 702 => letters = <<90, 90>>)
           /\ (col = 703 => letters = <<65, 65, 65>>)

C2_Rendered == (text # NoText) => C2_IsEncoding(text, addr[1], addr[2])

\* every iteration of the encoding loop strictly decreases div and keeps it >= 0
C2_LoopVariant ==
    (pc = "loop" /\ pc' = "loop") => (div' >= 0 /\ div' < div /\ addr' = addr)

\* C2: the label returned for (row, column) is the bijective base-26 numeral
\* of the column (digits A=1..Z=26, no zero digit) followed by the decimal
\* row -- 26 -> Z, 27 -> AA, 52 -> AZ, 53 -> BA, 702 -> ZZ, 703 -> AAA -- and
\* the encoding loop terminates: each iteration strictly decreases div, which
\* stays >= 0, and the loop is left when div = 0.
C2_Encode ==
    /\ [](C2_Rendered /\ (pc = "loop" => div >= 0))
    /\ [][C2_LoopVariant]_vars

C2_Witness ==
    /\ addr = <<10, 702>>
    /\ text = <<90, 90, 49, 48>>
    /\ pc = "idle"

\* ---------------------------------------------------------------------- C3
\* the whole string is one or more letters followed by one or more digits
C3_IsWholeLabel(s) ==
    \E k \in 1 .. (Len(s) - 1) :
        /\ \A i \in 1 .. k : IsLetter(s[i])
        /\ \A i \in (k + 1) .. Len(s) : IsDigit(s[i])

\* C3: Address(label) fails with IncorrectCellLabel, and produces no Address,
\* for every string that is not as a whole letters followed by digits.
C3_RejectsNonLabels ==
    (arg.kind = "str" /\ ~C3_IsWholeLabel(arg.s))
        => (err = "IncorrectCellLabel" /\ addr = NoAddr)

\* ---------------------------------------------------------------------- C4
\* C4: every Address that exists has row >= 1 and column >= 1, however it was
\* constructed (tuple, label string, other Address).
C4_AddressPositive ==
    (addr # NoAddr) => (addr[1] >= 1 /\ addr[2] >= 1)

\* ---------------------------------------------------------------------- C5
\* the coordinates an address argument denotes, when it denotes a cell
C5_Valid(a) ==
    LET r == AddressInit(a)
    IN r.err = NoError /\ r.value[1] >= 1 /\ r.value[2] >= 1

C5_EndsWith(msg, label) ==
    Len(label) <= Len(msg)
        /\ SubSeq(msg, Len(msg) - Len(label) + 1, Len(msg)) = label

\* C5: constructing a Range or a GridRange from two cell addresses whose start
\* is after the end on the row or the column axis fails with InvalidRange
\* carrying the would-be label START:END, and with no other error;
\* constructing with start <= end on both axes succeeds.
C5_Construct ==
    (call.op \in {"Range", "GridRange"} /\ C5_Valid(call.start) /\ C5_Valid(call.end))
        => LET a == AddressInit(call.start).value
               b == AddressInit(call.end).value
           IN IF a[1] > b[1] \/ a[2] > b[2]
              THEN /\ exc.type = "InvalidRange"
                   /\ C5_EndsWith(exc.msg,
                                  ValueAsLabel(a).label \o <<58>> \o ValueAsLabel(b).label)
                   /\ obj = NoObj
              ELSE /\ exc = NoExc
                   /\ obj # NoObj
                   /\ obj.start = a /\ obj.end = b

\* ---------------------------------------------------------------------- C6
\* C6: after any sequence of constructions and resize operations every range
\* object has start.row <= end.row and start.column <= end.column.
C6_Ordered ==
    (obj # NoObj) => (obj.start[1] <= obj.end[1] /\ obj.start[2] <= obj.end[2])

\* ---------------------------------------------------------------------- C7
\* C7: the grid-range projection returned for a sheet-bound span is 0-indexed
\* and half-open, with the id of the bound sheet, and equals what
\* DataRange._get_gridrange gives for the same span.
C7_Projection ==
    (call.op \in {"to_json", "grid_range"} /\ ret.kind = "json"
        /\ obj.start[1] >= 1 /\ obj.start[2] >= 1)
        => /\ ret.v = [sheetId |-> obj.sheet,
                       startRowIndex |-> obj.start[1] - 1,
                       endRowIndex |-> obj.end[1],
                       startColumnIndex |-> obj.start[2] - 1,
                       endColumnIndex |-> obj.end[2]]
           /\ ret.v = GetGridrange(obj)

\* ---------------------------------------------------------------------- C8
C8_ValidJson(j) ==
    /\ j.startRowIndex >= 0 /\ j.endRowIndex > j.startRowIndex
    /\ j.startColumnIndex >= 0 /\ j.endColumnIndex > j.startColumnIndex

\* C8: for every valid grid-range JSON j, from_json builds a span, and
\* projecting that span back with to_json returns j unchanged.
C8_JsonRoundTrip ==
    /\ (call.op = "from_json" /\ C8_ValidJson(call.j))
          => (exc = NoExc /\ obj # NoObj)
    /\ (call.op \in {"to_json", "grid_range"} /\ origin.kind = "json"
           /\ C8_ValidJson(origin.v))
          => (ret.kind = "json" /\ ret.v = origin.v)

\* ---------------------------------------------------------------------- C9
C9_Registered(o) == o # NoObj /\ o.cls = "NamedRange" /\ o.id # PyNone

C9_Step ==
    \* a creation call for a fresh instance either fails in the gateway or
    \* leaves the instance registered under a non-null id
    /\ (call'.op = "NamedRange" /\ call'.named_range_id = PyNone
           /\ C5_Valid(call'.start) /\ C5_Valid(call'.end))
          => /\ exc'.type \in {"none", "RequestError"}
             /\ (exc'.type = "none" => C9_Registered(obj'))
    \* once assigned, the id never changes
    /\ (C9_Registered(obj) /\ obj' # NoObj) => obj'.id = obj.id
    \* a creation call on a registered instance is rejected or does nothing
    /\ (C9_Registered(obj) /\ call'.op = "_add_named_range")
          => (exc' # NoExc \/ (sent' = <<>> /\ obj' = obj))

\* C9: a NamedRange's id is null only before its first successful creation
\* call; a creation call on a fresh instance that the gateway serves assigns a
\* non-null id; after that no operation changes the id, and a creation call
\* on a registered instance is rejected or does nothing.
C9_IdLifecycle == [][C9_Step]_vars

\* --------------------------------------------------------------------- C10
C10_Step ==
    (C9_Registered(obj) /\ obj' # NoObj
        /\ <<obj'.name, obj'.start, obj'.end>> # <<obj.name, obj.start, obj.end>>)
      => /\ exc' = NoExc
         /\ \E i \in DOMAIN sent' :
               /\ sent'[i].req = "updateNamedRange"
               /\ sent'[i].name = obj'.name
               /\ sent'[i].range \in {GetGridrange(obj'), GridRangeToJson(obj')}

C11_Mutators == {"name", "start_addr", "end_addr", "update_values"}

C11_Step ==
    \* the call is a mutation with a well-formed argument, on a range that
    \* update_named_range does not skip (its name id is not '')
    (obj # NoObj /\ call'.op \in C11_Mutators /\ obj.name_id # <<>>
        /\ exc'.type \notin {"IncorrectCellLabel", "InvalidArgumentValue"}
        /\ (call'.op = "update_values"
               \/ <<obj'.name, obj'.start, obj'.end>> # <<obj.name, obj.start, obj.end>>))
      => ((sent' # <<>>) <=> obj.linked)

C12_Step ==
    (C9_Registered(obj) /\ call'.op = "delete")
      => IF exc' = NoExc
         THEN \* exactly the entry of this range is dropped: one entry goes,
              \* and it is not the entry of the other named range
              /\ named_ranges' \subseteq named_ranges
              /\ Cardinality(named_ranges \ named_ranges') = 1
              /\ OtherName \in named_ranges'
         ELSE named_ranges' = named_ranges

C13_Step ==
    (C9_Registered(obj) /\ call.op = "delete" /\ exc = NoExc)
      => (exc' # NoExc /\ sent' = <<>>)

C14_Targets == {"range", "unprotectedRanges", "namedRangeId"}

\* (a) the grid range of the explicit span and nothing else
C14_ShapeSpan(r) ==
    /\ r.keys \cap C14_Targets = {"range"}
    /\ r.range \in {GridRangeToJson(obj), GetGridrange(obj)}

\* (b) an empty range together with the unprotected ranges
C14_ShapeSheet(r) ==
    /\ r.keys \cap C14_Targets = {"range", "unprotectedRanges"}
    /\ r.range = EmptyJson
    /\ r.unprotectedRanges # NoList

\* (c) the id of the named range and no range
C14_ShapeNamed(r) ==
    /\ r.keys \cap C14_Targets = {"namedRangeId"}
    /\ r.namedRangeId # PyNone

C15_Modes(c) ==
    (IF C5_Valid(c.start) /\ C5_Valid(c.end) THEN {"span"} ELSE {})
        \cup (IF c.kw.unprotectedRanges # NoList THEN {"sheet"} ELSE {})
        \cup (IF c.kw.namedRangeId # PyNone THEN {"named"} ELSE {})

C15_Step ==
    (call'.op = "ProtectedRange" /\ Cardinality(C15_Modes(call')) > 1)
      => /\ exc' # NoExc
         /\ \A i \in DOMAIN sent' : sent'[i].req # "addProtectedRange"

C16_Step ==
    /\ (obj # NoObj /\ call'.op = "editors_get")
          => IF obj.can_edit
             THEN /\ exc' = NoExc
                  /\ ret' = [kind |-> "editors", v |-> obj.editors]
                  /\ obj'.editors = obj.editors
             ELSE /\ exc'.type = "NoPermission"
                  /\ obj'.editors = obj.editors
    /\ (obj # NoObj /\ call'.op = "editors_set")
          => IF obj.can_edit
             THEN /\ exc' = NoExc
                  /\ obj'.editors = call'.value
             ELSE /\ exc'.type = "NoPermission"
                  /\ obj'.editors = obj.editors

\* C16: with requestingUserCanEdit false every read and every write of
\* editors raises NoPermission and leaves the stored list unchanged; with it
\* true a write stores the list given and a read returns the stored list
\* unchanged, on every access.
C16_EditorsGate == [][C16_Step]_vars

\* a read returned the list a preceding write stored
C16_Witness ==
    /\ call.op = "editors_get"
    /\ obj.can_edit
    /\ exc = NoExc
    /\ ret = [kind |-> "editors", v |-> List(<<"u2">>)]

\* --------------------------------------------------------------------- C17
C17_IsValuesGet(r, o) ==
    /\ r.req = "values_get"
    /\ r.range = ValueAsLabel(o.start).label \o <<58>> \o ValueAsLabel(o.end).label
    /\ r.majorDimension = o.major_dimension
    /\ r.valueRenderOption = o.value_render_option
    /\ r.dateTimeRenderOption = o.date_time_render_option

C17_Step ==
    \* load() on a window
    /\ (obj # NoObj /\ call'.op = "load")
          => /\ \E i \in DOMAIN sent' : C17_IsValuesGet(sent'[i], obj)
             /\ (exc' = NoExc => obj'.values = call'.resp)
    \* the load() that datarange.ValueRange.__init__ runs on a well-formed span
    /\ (call'.op = "ValueRange" /\ C5_Valid(call'.start) /\ C5_Valid(call'.end)
           /\ ~StartAfterEnd(AddressInit(call'.start).value, AddressInit(call'.end).value))
          => \E i \in DOMAIN sent' : sent'[i].req = "values_get"

\* C17: every load() passes a value-get call to the gateway with the window's
\* current range, major dimension and render options, also when values are
\* already held, and when the call succeeds the local matrix is the response.
C17_LoadFetches == [][C17_Step]_vars

\* --------------------------------------------------------------------- C18
C18_Step ==
    \* changing to the other orientation succeeds for every matrix held
    /\ (obj # NoObj /\ call'.op = "major_dimension" /\ obj.values # NoList
           /\ call'.value # obj.major_dimension)
          => (exc' = NoExc /\ obj'.major_dimension = call'.value)
    \* changing back right after restores the matrix and the orientation
    /\ (call.op = "major_dimension" /\ exc = NoExc
           /\ call.value # call.before.major_dimension
           /\ call'.op = "major_dimension"
           /\ call'.value = call.before.major_dimension)
          => /\ exc' = NoExc
             /\ obj'.values = call.before.values
             /\ obj'.major_dimension = call.before.major_dimension
    \* setting the current orientation changes nothing
    /\ (obj # NoObj /\ call'.op = "major_dimension" /\ call'.value = obj.major_dimension)
          => (exc' = NoExc /\ obj' = obj)

C19_Label(o) == ValueAsLabel(o.start).label \o <<58>> \o ValueAsLabel(o.end).label

\* C19: rendering the range label of a Range or a GridRange returns exactly
\* start.label ":" end.label, and the rendering a ValueRange makes of its
\* range terminates.
C19_RangeLabel ==
    /\ (call.op = "range" /\ obj.start[1] >= 1 /\ obj.start[2] >= 1
           /\ obj.end[1] >= 1 /\ obj.end[2] >= 1)
          => (exc = NoExc /\ ret = [kind |-> "str", s |-> C19_Label(obj)])
    /\ (call.op = "ValueRange" /\ C5_Valid(call.start) /\ C5_Valid(call.end)
           /\ ~StartAfterEnd(AddressInit(call.start).value, AddressInit(call.end).value))
          => exc.type # "RecursionError"

\* --------------------------------------------------------------------- C20
\* C20: GridRange.to_json() and GridRange.grid_range of a span on sheet s
\* both return sheetId = s.id, startRowIndex = start.row, endRowIndex =
\* end.row + 1, startColumnIndex = start.column, endColumnIndex =
\* end.column + 1.
C20_ToJson ==
    (call.op \in {"to_json", "grid_range"} /\ obj # NoObj /\ obj.cls = "GridRange")
        => /\ exc = NoExc
           /\ ret = [kind |-> "json",
                     v |-> [sheetId |-> obj.sheet,
                            startRowIndex |-> obj.start[1],
                            endRowIndex |-> obj.end[1] + 1,
                            startColumnIndex |-> obj.start[2],
                            endColumnIndex |-> obj.end[2] + 1]]

\* A5:B10 gives 5, 11, 1, 3
C20_Witness ==
    /\ call.op = "grid_range"
    /\ obj # NoObj /\ obj.cls = "GridRange"
    /\ obj.start = <<5, 1>> /\ obj.end = <<10, 2>>
    /\ ret.v = [sheetId |-> obj.sheet, startRowIndex |-> 5, endRowIndex |-> 11,
                startColumnIndex |-> 1, endColumnIndex |-> 3]

\* --------------------------------------------------------------------- C21
\* C21: for an Address of either class (coordinates >= 1), __eq__ returns
\* True or False, and True exactly when the canonical labels match, for
\* another Address of its class; True exactly when the operand is the
\* address's canonical label, for a str; True exactly when the operand is the
\* address's coordinate pair, for a tuple; NotImplemented, without raising,
\* for any other type.  __ne__ returns the negation, NotImplemented unchanged.
C21_SameCell(v, other) ==
    CASE other.kind = "Address" -> ValueAsLabel(v).label = ValueAsLabel(other.v).label
      [] other.kind = "str" -> ValueAsLabel(v).label = other.s
      [] other.kind = "tuple" -> v = other.v
      [] OTHER -> FALSE

C21_Comparable(v, module, other) ==
    /\ C5_Valid([kind |-> "tuple", v |-> v])
    /\ other.kind = "Address" => other.module = module /\ C5_Valid([kind |-> "tuple", v |-> other.v])

C21_Equality ==
    (call.op \in {"__eq__", "__ne__"} /\ C21_Comparable(addr, call.module, call.other))
        => /\ exc = NoExc
           /\ IF call.other.kind = "other" THEN ret = NotImplemented
              ELSE ret = Bool(C21_SameCell(addr, call.other) <=> call.op = "__eq__")

\* --------------------------------------------------------------------- C22
\* C22: when ProtectedRange.__init__ has created the range on the remote
\* (no protected_range_id given, addProtectedRange sent, no exception), the
\* object's id is a server-assigned id and not None; and no
\* deleteProtectedRange request carries the id None.
C22_Created ==
    /\ call.op = "ProtectedRange"
    /\ call.protected_range_id = PyNone
    /\ exc = NoExc
    /\ \E i \in 1 .. Len(sent) : sent[i].req = "addProtectedRange"

C23_Unregistered(id) == id = PyNone \/ id = <<>>

====
